---- MODULE Spec2Model ----
(***************************************************************************)
(* Fungible token with bridge minting (libs-rs/fungible-token/src/lib.rs). *)
(*                                                                         *)
(* The contract state is the FungibleToken struct: the accounts map        *)
(* (sha256(account id) -> Account{balance, allowances}), total_supply,     *)
(* prover_account and verify_ethash.  Every public method is one action    *)
(* that runs the whole method body; a panic discards every write of the    *)
(* call (the host keeps a call's writes only when the call succeeds).      *)
(* The last variable holds the receipt outcome of the call the host has    *)
(* just executed; HostReturn hands it to the caller and the host is idle   *)
(* again.  requests holds the promise chains created by mint: the call to  *)
(* the prover and the finish_mint callback that follows it.                *)
(*                                                                         *)
(* Balance is u128.  The arithmetic of the source is the plain += and -=   *)
(* of Rust: an overflowing += panics in a build with overflow checks (the  *)
(* test profile) and wraps modulo 2^128 in a build without them (the       *)
(* default release profile).  overflow_checks is the build's choice.       *)
(* The 128 bit range is scaled down to 0..U128Max.                         *)
(***************************************************************************)
EXTENDS Integers, FiniteSets, Sequences, TLC

\* Stand-in for 2^128 - 1, the largest Balance.
U128Max == 2
\* Number of mint promise chains the environment creates.
MaxMints == 2
\* Number of allowance entries the storage holds at one time.
MaxAllowanceEntries == 1
\* Number of mint promise chains created while allowances are in use too.
MaxMintsInterleaved == 1

VARIABLES
    state_exists,     \* env::state_exists(): the contract state was written
    accounts,         \* FungibleToken.accounts
    total_supply,     \* FungibleToken.total_supply
    prover_account,   \* FungibleToken.prover_account
    verify_ethash,    \* FungibleToken.verify_ethash
    overflow_checks,  \* build profile: does an overflowing += panic
    requests,         \* promise chains created by mint
    last              \* outcome of the call just executed, or Idle

vars == <<state_exists, accounts, total_supply, prover_account, verify_ethash,
          overflow_checks, requests, last>>

ledger == <<state_exists, accounts, total_supply, prover_account, verify_ethash>>

----------------------------------------------------------------------------
\* Identifiers.

alice == "alice.near"
bob == "bob.near"
carol == "carol.near"
\* An identifier env::is_valid_account_id rejects (upper case, one character).
BadId == "X"

ValidIds == {alice, bob, carol}
AllIds == ValidIds \cup {BadId}
\* The accounts that sign calls.  The contract's own account signs none: it
\* calls the contract only through the callback that mint registers.
Callers == {bob, carol}
Balances == 0..U128Max
Provers == {"prover.near"}
NoProver == ""

is_valid_account_id(id) == id \in ValidIds

\* The contract's own account (get_context of the tests).
current_account_id == alice

\* sha256 of an account id: a key that differs for different ids.
sha256(id) == <<"sha256", id>>

----------------------------------------------------------------------------
\* near_sdk::collections::Map as a finite function.

EmptyMap == [k \in {} |-> 0]
MapInsert(m, k, v) == [x \in (DOMAIN m) \cup {k} |-> IF x = k THEN v ELSE m[x]]
MapRemove(m, k) == [x \in (DOMAIN m) \ {k} |-> m[x]]
MapHas(m, k) == k \in DOMAIN m

----------------------------------------------------------------------------
\* u128 arithmetic.

Modulus == U128Max + 1
add_overflows(a, b) == a + b > U128Max
wrapping_add(a, b) == (a + b) % Modulus

----------------------------------------------------------------------------
\* struct Account.

Account_new == [balance |-> 0, allowances |-> EmptyMap]

\* Variant of Account::set_allowance that stores every allowance, 0 too.
Account_set_allowance_always(account, escrow_account_id, allowance) ==
    [account EXCEPT !.allowances = MapInsert(@, sha256(escrow_account_id), allowance)]

Account_set_allowance(account, escrow_account_id, allowance) ==
    LET escrow_hash == sha256(escrow_account_id)
    IN  IF allowance > 0
        THEN [account EXCEPT !.allowances = MapInsert(@, escrow_hash, allowance)]
        ELSE [account EXCEPT !.allowances = MapRemove(@, escrow_hash)]

Account_get_allowance(account, escrow_account_id) ==
    LET escrow_hash == sha256(escrow_account_id)
    IN  IF MapHas(account.allowances, escrow_hash)
        THEN account.allowances[escrow_hash]
        ELSE 0

----------------------------------------------------------------------------
\* Helpers of FungibleToken; accts is the accounts map they work on.

get_account(accts, owner_id) ==
    LET account_hash == sha256(owner_id)
    IN  IF MapHas(accts, account_hash) THEN accts[account_hash] ELSE Account_new

set_account(accts, owner_id, account) ==
    MapInsert(accts, sha256(owner_id), account)

\* The outcome of a call: err is the panic message ("" when the call
\* succeeded) and accts, supply are the contract state the host keeps.
Ok(accts, supply) == [err |-> "", accts |-> accts, supply |-> supply]
Panic(msg) == [err |-> msg, accts |-> accounts, supply |-> total_supply]

NotInitialized == "Fun token should be initialized before usage"
AddOverflow == "attempt to add with overflow"

\* Variants of the panic conditions with the check left out.
already_initialized_unchecked == FALSE
not_enough_balance_unchecked(account, amount) == FALSE
not_enough_allowance_unchecked(allowance, amount) == FALSE
called_by_itself_unchecked(predecessor) == TRUE
allowance_for_yourself_unchecked(escrow_account_id, owner_id) == FALSE

\* The conditions of the panics.
already_initialized == state_exists
not_enough_balance(account, amount) == account.balance < amount
not_enough_allowance(allowance, amount) == allowance < amount
called_by_itself(predecessor) == predecessor = current_account_id
allowance_for_yourself(escrow_account_id, owner_id) == escrow_account_id = owner_id

----------------------------------------------------------------------------
\* The public methods, as functions of the current state and the arguments.

\* Variant of new that leaves out crediting the owner.
new_without_credit(owner_id, supply) ==
    IF ~is_valid_account_id(owner_id) THEN Panic("Owner's account ID is invalid")
    ELSE IF state_exists THEN Panic("Already initialized")
    ELSE Ok(set_account(EmptyMap, owner_id, get_account(EmptyMap, owner_id)), supply)

new(owner_id, supply) ==
    IF ~is_valid_account_id(owner_id) THEN Panic("Owner's account ID is invalid")
    ELSE IF already_initialized THEN Panic("Already initialized")
    ELSE LET account == [get_account(EmptyMap, owner_id) EXCEPT !.balance = supply]
         IN  Ok(set_account(EmptyMap, owner_id, account), supply)

set_allowance(predecessor, escrow_account_id, allowance) ==
    IF ~state_exists THEN Panic(NotInitialized)
    ELSE IF ~is_valid_account_id(escrow_account_id)
    THEN Panic("Escrow account ID is invalid")
    ELSE LET owner_id == predecessor
         IN  IF allowance_for_yourself(escrow_account_id, owner_id)
             THEN Panic("Can't set allowance for yourself")
             ELSE LET account == Account_set_allowance(
                                     get_account(accounts, owner_id),
                                     escrow_account_id, allowance)
                  IN  Ok(set_account(accounts, owner_id, account), total_supply)

\* Variant of the credit half of transfer_from that also adds the amount to
\* total_supply.
deposit_with_supply(accts, new_owner_id, amount) ==
    LET new_account == get_account(accts, new_owner_id)
    IN  IF add_overflows(new_account.balance, amount) /\ overflow_checks
        THEN Panic(AddOverflow)
        ELSE Ok(set_account(accts, new_owner_id,
                    [new_account EXCEPT
                        !.balance = wrapping_add(new_account.balance, amount)]),
                wrapping_add(total_supply, amount))

\* The credit half of transfer_from (lines 185-188), after the owner's
\* account was saved into accts.
deposit(accts, new_owner_id, amount) ==
    LET new_account == get_account(accts, new_owner_id)
    IN  IF add_overflows(new_account.balance, amount) /\ overflow_checks
        THEN Panic(AddOverflow)
        ELSE Ok(set_account(accts, new_owner_id,
                    [new_account EXCEPT
                        !.balance = wrapping_add(new_account.balance, amount)]),
                total_supply)

\* Variant of transfer_from that checks the allowance and does not lower it.
transfer_from_keeps_allowance(predecessor, owner_id, new_owner_id, amount) ==
    IF ~state_exists THEN Panic(NotInitialized)
    ELSE IF ~is_valid_account_id(owner_id) THEN Panic("Owner's account ID is invalid")
    ELSE IF ~is_valid_account_id(new_owner_id)
    THEN Panic("New owner's account ID is invalid")
    ELSE IF amount = 0 THEN Panic("Can't transfer 0 tokens")
    ELSE LET account == get_account(accounts, owner_id)
         IN  IF not_enough_balance(account, amount) THEN Panic("Not enough balance")
             ELSE LET debited == [account EXCEPT !.balance = @ - amount]
                      escrow_account_id == predecessor
                  IN  IF escrow_account_id # owner_id
                         /\ not_enough_allowance(
                                Account_get_allowance(debited, escrow_account_id), amount)
                      THEN Panic("Not enough allowance")
                      ELSE deposit(set_account(accounts, owner_id, debited),
                                   new_owner_id, amount)

transfer_from(predecessor, owner_id, new_owner_id, amount) ==
    IF ~state_exists THEN Panic(NotInitialized)
    ELSE IF ~is_valid_account_id(owner_id) THEN Panic("Owner's account ID is invalid")
    ELSE IF ~is_valid_account_id(new_owner_id)
    THEN Panic("New owner's account ID is invalid")
    ELSE IF amount = 0 THEN Panic("Can't transfer 0 tokens")
    ELSE LET account == get_account(accounts, owner_id)
         IN  IF not_enough_balance(account, amount) THEN Panic("Not enough balance")
             ELSE LET debited == [account EXCEPT !.balance = @ - amount]
                      escrow_account_id == predecessor
                  IN  IF escrow_account_id # owner_id
                      THEN LET allowance == Account_get_allowance(debited, escrow_account_id)
                           IN  IF not_enough_allowance(allowance, amount)
                               THEN Panic("Not enough allowance")
                               ELSE deposit(
                                      set_account(accounts, owner_id,
                                          Account_set_allowance(debited, escrow_account_id,
                                                                allowance - amount)),
                                      new_owner_id, amount)
                      ELSE deposit(set_account(accounts, owner_id, debited),
                                   new_owner_id, amount)

transfer(predecessor, new_owner_id, amount) ==
    transfer_from(predecessor, predecessor, new_owner_id, amount)

\* Variant of finish_mint that leaves out the increment of total_supply.
finish_mint_without_supply(predecessor, verification_success, new_owner_id, amount) ==
    IF ~state_exists THEN Panic(NotInitialized)
    ELSE IF ~called_by_itself(predecessor)
    THEN Panic("Finish transfer is only allowed to be called by the contract itself")
    ELSE IF ~verification_success THEN Panic("Failed to verify the proof")
    ELSE LET account == get_account(accounts, new_owner_id)
         IN  IF overflow_checks /\ add_overflows(account.balance, amount)
             THEN Panic(AddOverflow)
             ELSE Ok(set_account(accounts, new_owner_id,
                         [account EXCEPT !.balance = wrapping_add(@, amount)]),
                     total_supply)

\* Variant of finish_mint that stores the amount as the balance instead of
\* adding it.
finish_mint_overwrites(predecessor, verification_success, new_owner_id, amount) ==
    IF ~state_exists THEN Panic(NotInitialized)
    ELSE IF ~called_by_itself(predecessor)
    THEN Panic("Finish transfer is only allowed to be called by the contract itself")
    ELSE IF ~verification_success THEN Panic("Failed to verify the proof")
    ELSE LET account == get_account(accounts, new_owner_id)
         IN  IF overflow_checks /\ add_overflows(total_supply, amount)
             THEN Panic(AddOverflow)
             ELSE Ok(set_account(accounts, new_owner_id,
                         [account EXCEPT !.balance = amount]),
                     wrapping_add(total_supply, amount))

\* Variant of finish_mint that leaves out the assertion on verification_success.
finish_mint_unverified(predecessor, verification_success, new_owner_id, amount) ==
    IF ~state_exists THEN Panic(NotInitialized)
    ELSE IF ~called_by_itself(predecessor)
    THEN Panic("Finish transfer is only allowed to be called by the contract itself")
    ELSE LET account == get_account(accounts, new_owner_id)
         IN  IF overflow_checks /\ (add_overflows(account.balance, amount)
                                    \/ add_overflows(total_supply, amount))
             THEN Panic(AddOverflow)
             ELSE Ok(set_account(accounts, new_owner_id,
                         [account EXCEPT !.balance = wrapping_add(@, amount)]),
                     wrapping_add(total_supply, amount))

finish_mint(predecessor, verification_success, new_owner_id, amount) ==
    IF ~state_exists THEN Panic(NotInitialized)
    ELSE IF ~called_by_itself(predecessor)
    THEN Panic("Finish transfer is only allowed to be called by the contract itself")
    ELSE IF ~verification_success THEN Panic("Failed to verify the proof")
    ELSE LET account == get_account(accounts, new_owner_id)
         IN  IF overflow_checks /\ (add_overflows(account.balance, amount)
                                    \/ add_overflows(total_supply, amount))
             THEN Panic(AddOverflow)
             ELSE Ok(set_account(accounts, new_owner_id,
                         [account EXCEPT !.balance = wrapping_add(@, amount)]),
                     wrapping_add(total_supply, amount))

\* The read-only methods.
get_total_supply == total_supply
get_balance(owner_id) == get_account(accounts, owner_id).balance
get_allowance(owner_id, escrow_account_id) ==
    Account_get_allowance(get_account(accounts, owner_id), escrow_account_id)
\* get_allowance panics instead when one of the identifiers is invalid.
get_allowance_panics(owner_id, escrow_account_id) ==
    ~is_valid_account_id(owner_id) \/ ~is_valid_account_id(escrow_account_id)

----------------------------------------------------------------------------
\* Calls and promise chains.

\* The record of an executed call: the method, its arguments (the fields a
\* method does not take keep their default) and the panic message.
Receipt(op, caller, owner, to, amount, flag, req, err) ==
    [op |-> op, caller |-> caller, owner |-> owner, to |-> to,
     amount |-> amount, flag |-> flag, req |-> req, err |-> err]

Idle == Receipt("none", "", "", "", 0, FALSE, 0, "")

\* A promise chain created by mint: prover::verify_log_entry(.., skip) and
\* then finish_mint(new_owner_id, amount) on the contract itself.
Proofs == {"proof"}
NoRequest ==
    [status |-> "NONE", new_owner_id |-> "", amount |-> 0, proof |-> "",
     skip_bridge_call |-> FALSE]
RequestIds == 1..MaxMints
Issued == {i \in RequestIds : requests[i].status # "NONE"}

\* The prover has answered and the host is about to run the callback.  The
\* answer reaches the contract only as the argument of that callback, so the
\* calls that run between the answer and the callback are taken before the
\* answer.
AnswerPending == \E i \in RequestIds : requests[i].status \in {"VERIFIED_OK", "VERIFIED_FAIL"}
HostReady == last = Idle /\ ~AnswerPending

\* Number of allowance entries stored in accts.
AllowanceEntries(accts) ==
    Cardinality({<<h, e>> \in (DOMAIN accts) \X {sha256(id) : id \in AllIds} :
                    MapHas(accts[h].allowances, e)})

Init ==
    /\ state_exists = FALSE
    /\ accounts = EmptyMap
    /\ total_supply = 0
    /\ prover_account = NoProver
    /\ verify_ethash = FALSE
    /\ overflow_checks \in BOOLEAN
    /\ requests = [i \in RequestIds |-> NoRequest]
    /\ last = Idle

\* The host keeps the writes of a call that did not panic.
Commit(r) ==
    /\ accounts' = r.accts
    /\ total_supply' = r.supply

Call_new(owner_id, supply, prover, verify) ==
    LET r == new(owner_id, supply)
    IN  /\ HostReady
        /\ Commit(r)
        /\ state_exists' = (state_exists \/ r.err = "")
        /\ prover_account' = IF r.err = "" THEN prover ELSE prover_account
        /\ verify_ethash' = IF r.err = "" THEN verify ELSE verify_ethash
        /\ last' = Receipt("new", "", owner_id, "", supply, verify, 0, r.err)
        /\ UNCHANGED <<overflow_checks, requests>>

Call_set_allowance(caller, escrow_account_id, allowance) ==
    LET r == set_allowance(caller, escrow_account_id, allowance)
    IN  /\ HostReady
        /\ AllowanceEntries(r.accts) <= MaxAllowanceEntries
        /\ Commit(r)
        /\ last' = Receipt("set_allowance", caller, caller, escrow_account_id,
                           allowance, FALSE, 0, r.err)
        /\ UNCHANGED <<state_exists, prover_account, verify_ethash,
                       overflow_checks, requests>>

Call_transfer_from(caller, owner_id, new_owner_id, amount) ==
    LET r == transfer_from(caller, owner_id, new_owner_id, amount)
    IN  /\ HostReady
        /\ Commit(r)
        /\ last' = Receipt("transfer_from", caller, owner_id, new_owner_id,
                           amount, FALSE, 0, r.err)
        /\ UNCHANGED <<state_exists, prover_account, verify_ethash,
                       overflow_checks, requests>>

Call_transfer(caller, new_owner_id, amount) ==
    LET r == transfer(caller, new_owner_id, amount)
    IN  /\ HostReady
        /\ Commit(r)
        /\ last' = Receipt("transfer", caller, caller, new_owner_id,
                           amount, FALSE, 0, r.err)
        /\ UNCHANGED <<state_exists, prover_account, verify_ethash,
                       overflow_checks, requests>>

\* Variant of mint that passes verify_ethash itself as skip_bridge_call.
mint_skip_when_verifying(new_owner_id, amount, proof) ==
    [status |-> "REQUESTED", new_owner_id |-> new_owner_id, amount |-> amount,
     proof |-> proof, skip_bridge_call |-> verify_ethash]

\* mint: reads the state, changes none of it, and returns the promise chain.
mint(new_owner_id, amount, proof) ==
    [status |-> "REQUESTED", new_owner_id |-> new_owner_id, amount |-> amount,
     proof |-> proof, skip_bridge_call |-> ~verify_ethash]

Call_mint(new_owner_id, amount, proof) ==
    /\ HostReady
    /\ \E i \in RequestIds :
        /\ requests[i].status = "NONE"
        /\ \A j \in RequestIds : j < i => requests[j].status # "NONE"
        /\ IF state_exists
           THEN /\ requests' = [requests EXCEPT ![i] = mint(new_owner_id, amount, proof)]
                /\ last' = Receipt("mint", "", "", new_owner_id, amount, FALSE, i, "")
           ELSE /\ requests' = requests
                /\ last' = Receipt("mint", "", "", new_owner_id, amount, FALSE, 0,
                                   NotInitialized)
    /\ UNCHANGED <<ledger, overflow_checks>>

\* The prover answers verify_log_entry of request i.
ProverResponds(i, verification_success) ==
    /\ HostReady
    /\ requests[i].status = "REQUESTED"
    /\ requests' = [requests EXCEPT ![i].status =
                        IF verification_success THEN "VERIFIED_OK" ELSE "VERIFIED_FAIL"]
    /\ UNCHANGED <<ledger, overflow_checks, last>>

\* The host runs the finish_mint callback of request i with the prover's
\* answer; the predecessor of a callback is the contract itself.  The promise
\* chain is consumed: only its final status is kept.
Callback_finish_mint(i) ==
    LET q == requests[i]
        r == finish_mint(current_account_id, q.status = "VERIFIED_OK",
                         q.new_owner_id, q.amount)
    IN  /\ last = Idle
        /\ q.status \in {"VERIFIED_OK", "VERIFIED_FAIL"}
        /\ Commit(r)
        /\ requests' = [requests EXCEPT ![i] =
                            [NoRequest EXCEPT !.status =
                                IF r.err = "" THEN "CREDITED" ELSE "ABORTED"]]
        /\ last' = Receipt("finish_mint", current_account_id, "", q.new_owner_id,
                           q.amount, q.status = "VERIFIED_OK", i, r.err)
        /\ UNCHANGED <<state_exists, prover_account, verify_ethash, overflow_checks>>

\* Another account calls finish_mint as the callback of a promise of its
\* own, so that it chooses verification_success.
Call_finish_mint(caller, verification_success, new_owner_id, amount) ==
    LET r == finish_mint(caller, verification_success, new_owner_id, amount)
    IN  /\ HostReady
        /\ caller # current_account_id
        /\ Commit(r)
        /\ last' = Receipt("finish_mint", caller, "", new_owner_id, amount,
                           verification_success, 0, r.err)
        /\ UNCHANGED <<state_exists, prover_account, verify_ethash,
                       overflow_checks, requests>>

\* The host hands the outcome to the caller and is ready for the next call.
HostReturn ==
    /\ last # Idle
    /\ last' = Idle
    /\ UNCHANGED <<ledger, overflow_checks, requests>>

Do_new == \E o \in AllIds, s \in Balances, p \in Provers, v \in BOOLEAN : Call_new(o, s, p, v)
Do_set_allowance == \E c \in Callers, e \in AllIds, a \in Balances : Call_set_allowance(c, e, a)
Do_transfer_from ==
    \E c \in Callers, o \in AllIds, n \in AllIds, a \in Balances : Call_transfer_from(c, o, n, a)
Do_transfer == \E c \in Callers, n \in AllIds, a \in Balances : Call_transfer(c, n, a)
Do_mint == \E n \in AllIds, a \in Balances, p \in Proofs : Call_mint(n, a, p)
Do_prover == \E i \in RequestIds, b \in BOOLEAN : ProverResponds(i, b)
Do_callback == \E i \in RequestIds : Callback_finish_mint(i)
Do_finish_mint ==
    \E c \in Callers, b \in BOOLEAN, n \in AllIds, a \in Balances : Call_finish_mint(c, b, n, a)

\* Every operation, with MaxMintsInterleaved mint requests.
Next ==
    \/ Do_new
    \/ Do_set_allowance
    \/ Do_transfer_from
    \/ Do_transfer
    \/ (Cardinality(Issued) < MaxMintsInterleaved /\ Do_mint)
    \/ Do_prover
    \/ Do_callback
    \/ Do_finish_mint
    \/ HostReturn

Spec == Init /\ [][Next]_vars

\* The bridge with MaxMints mint requests, transfers between them, and no
\* delegated transfers.
NextBridge ==
    \/ Do_new
    \/ Do_transfer
    \/ Do_mint
    \/ Do_prover
    \/ Do_callback
    \/ Do_finish_mint
    \/ HostReturn

SpecBridge == Init /\ [][NextBridge]_vars

\* The bridge alone: initialization and MaxMintsInterleaved mint requests
\* with their answers and callbacks, and finish_mint called from outside.
NextMint ==
    \/ Do_new
    \/ (Cardinality(Issued) < MaxMintsInterleaved /\ Do_mint)
    \/ Do_prover
    \/ Do_callback
    \/ Do_finish_mint
    \/ HostReturn

SpecMint == Init /\ [][NextMint]_vars

\* The bridge alone under the host's scheduling: a receipt the host holds is
\* executed.  The outcome of a call is handed back, the prover's answer to an
\* outstanding request arrives although other calls keep running in between
\* (strong fairness), and the callback of an answered request runs.
Fairness ==
    /\ WF_vars(HostReturn)
    /\ \A i \in RequestIds :
          /\ SF_vars(\E b \in BOOLEAN : ProverResponds(i, b))
          /\ WF_vars(Callback_finish_mint(i))

SpecMintFair == SpecMint /\ Fairness

\* The token without the bridge: initialization, allowances and transfers.
NextToken ==
    \/ Do_new
    \/ Do_set_allowance
    \/ Do_transfer_from
    \/ Do_transfer
    \/ HostReturn

SpecToken == Init /\ [][NextToken]_vars

----------------------------------------------------------------------------
\* Observations used by the properties.

BalanceIn(accts, id) == get_account(accts, id).balance
AllowanceIn(accts, owner_id, escrow_account_id) ==
    Account_get_allowance(get_account(accts, owner_id), escrow_account_id)

RECURSIVE SumOver(_, _)
SumOver(accts, ids) ==
    IF ids = {} THEN 0
    ELSE LET id == CHOOSE x \in ids : TRUE
         IN  BalanceIn(accts, id) + SumOver(accts, ids \ {id})
SumBalances == SumOver(accounts, AllIds)

\* This step is the execution of a call of method op.
Executes(op) == last = Idle /\ last'.op = op
Failed == last'.err # ""
Succeeded == last'.err = ""

\* Every balance and every allowance is the same after the step.
SameBalances == \A id \in AllIds : BalanceIn(accounts', id) = BalanceIn(accounts, id)
SameAllowances ==
    \A o \in AllIds, e \in AllIds : AllowanceIn(accounts', o, e) = AllowanceIn(accounts, o, e)

----------------------------------------------------------------------------
\* C1: once the contract is initialized, the sum of all account balances
\* equals total_supply between any two calls.
C1_Conservation == state_exists => SumBalances = total_supply

\* C2 as stated: finish_mint run by the contract itself with
\* verification_success = true succeeds and adds exactly amount to the
\* recipient's balance and to total_supply; with false it fails and changes
\* no balance, no allowance and not total_supply.
C2_FinishMintAsStated ==
    [][(Executes("finish_mint") /\ state_exists /\ last'.caller = current_account_id) =>
        IF last'.flag
        THEN /\ Succeeded
             /\ BalanceIn(accounts', last'.to) = BalanceIn(accounts, last'.to) + last'.amount
             /\ total_supply' = total_supply + last'.amount
        ELSE Failed /\ SameBalances /\ SameAllowances /\ total_supply' = total_supply]_vars

\* C2 amended: the same, for a finish_mint whose amount fits: neither the
\* recipient's balance plus amount nor total_supply plus amount exceeds the
\* largest Balance.
C2_FinishMint ==
    [][(Executes("finish_mint") /\ state_exists /\ last'.caller = current_account_id) =>
        IF last'.flag
        THEN (~add_overflows(BalanceIn(accounts, last'.to), last'.amount)
              /\ ~add_overflows(total_supply, last'.amount))
             => /\ Succeeded
                /\ BalanceIn(accounts', last'.to)
                       = BalanceIn(accounts, last'.to) + last'.amount
                /\ total_supply' = total_supply + last'.amount
                /\ \A id \in AllIds \ {last'.to} :
                       BalanceIn(accounts', id) = BalanceIn(accounts, id)
                /\ SameAllowances
        ELSE Failed /\ SameBalances /\ SameAllowances /\ total_supply' = total_supply]_vars

\* A successful finish_mint of a positive amount has just run.
C2_Witness ==
    /\ last.op = "finish_mint" /\ last.caller = current_account_id
    /\ last.flag /\ last.err = "" /\ last.amount > 0
    /\ BalanceIn(accounts, last.to) = last.amount

\* C3: finish_mint called by an account other than the contract itself
\* fails, whatever verification_success, recipient and amount are, and leaves
\* the contract state and the pending requests as they were.
C3_ForgedFinishMint ==
    [][(Executes("finish_mint") /\ last'.caller # current_account_id) =>
        Failed /\ UNCHANGED <<ledger, requests>>]_vars

\* Another account has called finish_mint with verification_success = true on
\* the initialized contract and was rejected.
C3_Witness ==
    /\ state_exists
    /\ last.op = "finish_mint" /\ last.caller # current_account_id
    /\ last.flag /\ last.amount > 0
    /\ last.err = "Finish transfer is only allowed to be called by the contract itself"

\* C4: after initialization total_supply changes, and the sum of the balances
\* grows, only in the step that completes a mint
\* request the prover answered with success, for that request's recipient and
\* amount; the step marks the request CREDITED and a completed request stays
\* completed, so it is credited at most once.
C4_NoUnverifiedMint ==
    [][/\ (state_exists /\ (total_supply' # total_supply
                            \/ SumOver(accounts', AllIds) > SumOver(accounts, AllIds)))
            => \E i \in RequestIds :
                /\ requests[i].status = "VERIFIED_OK"
                /\ requests'[i].status = "CREDITED"
                /\ \A j \in RequestIds \ {i} : requests'[j] = requests[j]
                /\ last' = Receipt("finish_mint", current_account_id, "",
                                   requests[i].new_owner_id, requests[i].amount,
                                   TRUE, i, "")
                /\ accounts' = set_account(accounts, requests[i].new_owner_id,
                        [get_account(accounts, requests[i].new_owner_id) EXCEPT
                            !.balance = wrapping_add(@, requests[i].amount)])
       /\ \A i \in RequestIds :
            /\ requests[i].status \in {"CREDITED", "ABORTED"} => requests'[i] = requests[i]
            /\ (requests'[i].status = "CREDITED" /\ requests[i].status # "CREDITED")
                    => requests[i].status = "VERIFIED_OK"
            /\ requests'[i].status = "VERIFIED_OK" => requests[i].status \in {"REQUESTED", "VERIFIED_OK"}
      ]_vars

\* Two mint requests were credited.
C4_Witness ==
    /\ \A i \in RequestIds : requests[i].status = "CREDITED"
    /\ last.op = "finish_mint" /\ last.err = "" /\ last.amount > 0

\* C5: on the initialized contract every call of new fails and leaves
\* total_supply, the accounts with their balances and allowances, the
\* prover account and verify_ethash as they were.
C5_InitializedOnce ==
    [][(Executes("new") /\ state_exists) => Failed /\ UNCHANGED ledger]_vars

\* A second new, with another supply and another verify_ethash, was rejected
\* while an allowance was stored.
C5_Witness ==
    /\ last.op = "new" /\ last.err = "Already initialized"
    /\ last.amount # total_supply /\ last.flag # verify_ethash
    /\ AllowanceEntries(accounts) > 0

\* C6: new on the contract without state succeeds when owner_id is valid:
\* then total_supply is the given supply, the owner's balance equals it,
\* every other balance and every allowance is 0; with an invalid owner_id it
\* fails and no state exists afterwards.
C6_Initialize ==
    [][(Executes("new") /\ ~state_exists) =>
        IF is_valid_account_id(last'.owner)
        THEN /\ Succeeded
             /\ state_exists'
             /\ total_supply' = last'.amount
             /\ BalanceIn(accounts', last'.owner) = last'.amount
             /\ \A id \in AllIds \ {last'.owner} : BalanceIn(accounts', id) = 0
             /\ \A o \in AllIds, e \in AllIds : AllowanceIn(accounts', o, e) = 0
             /\ verify_ethash' = last'.flag
             /\ prover_account' \in Provers
        ELSE Failed /\ ~state_exists' /\ UNCHANGED ledger]_vars

\* new has just succeeded with a positive supply.
C6_Witness ==
    /\ last.op = "new" /\ last.err = "" /\ last.amount > 0
    /\ total_supply = last.amount

\* C7: a transfer or transfer_from of more than the owner's balance fails and
\* leaves every balance, every allowance and total_supply as they were.
C7_InsufficientBalance ==
    [][((Executes("transfer") \/ Executes("transfer_from"))
            /\ last'.amount > BalanceIn(accounts, last'.owner))
        => Failed /\ UNCHANGED ledger]_vars

\* A delegated transfer within the allowance was rejected for lack of balance.
C7_Witness ==
    /\ last.op = "transfer_from" /\ last.err = "Not enough balance"
    /\ last.caller # last.owner
    /\ AllowanceIn(accounts, last.owner, last.caller) >= last.amount
    /\ BalanceIn(accounts, last.owner) > 0

\* C8: a transfer_from by a caller other than the owner, of more than the
\* caller's allowance on the owner's account, fails and leaves the balances
\* and the allowances as they were, also when the owner's balance is enough.
C8_AllowanceGating ==
    [][(Executes("transfer_from") /\ last'.caller # last'.owner
            /\ last'.amount > AllowanceIn(accounts, last'.owner, last'.caller))
        => Failed /\ UNCHANGED ledger]_vars

\* A delegated transfer the owner's balance covers was rejected for lack of
\* allowance, the allowance being positive.
C8_Witness ==
    /\ last.op = "transfer_from" /\ last.err = "Not enough allowance"
    /\ BalanceIn(accounts, last.owner) >= last.amount
    /\ AllowanceIn(accounts, last.owner, last.caller) > 0

\* The balance of id after amount moved from owner_id to new_owner_id.
Moved(id, owner_id, new_owner_id, amount) ==
    BalanceIn(accounts, id) - (IF id = owner_id THEN amount ELSE 0)
                            + (IF id = new_owner_id THEN amount ELSE 0)

\* C9: a successful transfer_from by a caller other than the owner takes
\* exactly amount from the owner's balance, adds exactly amount to the
\* recipient's, takes exactly amount from the caller's allowance on the
\* owner's account and changes no other balance, no other allowance and not
\* total_supply.
C9_DelegatedTransfer ==
    [][(Executes("transfer_from") /\ last'.caller # last'.owner /\ Succeeded) =>
        /\ \A id \in AllIds :
              BalanceIn(accounts', id) = Moved(id, last'.owner, last'.to, last'.amount)
        /\ \A o \in AllIds, e \in AllIds :
              AllowanceIn(accounts', o, e) =
                  AllowanceIn(accounts, o, e)
                    - (IF o = last'.owner /\ e = last'.caller THEN last'.amount ELSE 0)
        /\ total_supply' = total_supply]_vars

\* C10: transfer by caller c ends as transfer_from(c, recipient, amount)
\* called by c ends: the same success or panic and the same state; when it
\* succeeds, amount has moved from c's balance to the recipient's and no
\* allowance has changed.
C10_TransferAsTransferFrom ==
    [][Executes("transfer") =>
        /\ last'.err = transfer_from(last'.caller, last'.caller, last'.to, last'.amount).err
        /\ accounts' = transfer_from(last'.caller, last'.caller, last'.to, last'.amount).accts
        /\ total_supply' = total_supply
        /\ Succeeded =>
            /\ \A id \in AllIds :
                  BalanceIn(accounts', id) = Moved(id, last'.caller, last'.to, last'.amount)
            /\ SameAllowances]_vars

\* C11: set_allowance with the caller as escrow fails for every allowance,
\* 0 included, and leaves the contract state as it was; and in every
\* reachable state no account has an allowance on its own account.
C11_SelfAllowance ==
    /\ [][(Executes("set_allowance") /\ last'.to = last'.caller) =>
            Failed /\ UNCHANGED ledger]_vars
    /\ [](\A x \in AllIds : AllowanceIn(accounts, x, x) = 0)

\* On the initialized contract an account that has given an allowance was
\* refused the allowance 0 for itself.
C11_Witness ==
    /\ last.op = "set_allowance" /\ last.to = last.caller /\ last.amount = 0
    /\ last.err = "Can't set allowance for yourself"
    /\ AllowanceEntries(accounts) > 0

\* C12: an addition that would take a balance or total_supply above the
\* largest Balance is fatal: a finish_mint succeeds only when neither the
\* recipient's balance plus amount nor total_supply plus amount exceeds it, a
\* transfer or transfer_from to another account succeeds only when the
\* recipient's balance plus amount does not exceed it, and a call that fails
\* leaves the contract state as it was.
C12_OverflowFatal ==
    [][/\ (Executes("finish_mint") /\ Succeeded) =>
            /\ ~add_overflows(BalanceIn(accounts, last'.to), last'.amount)
            /\ ~add_overflows(total_supply, last'.amount)
       /\ ((Executes("transfer") \/ Executes("transfer_from"))
                /\ Succeeded /\ last'.to # last'.owner) =>
            ~add_overflows(BalanceIn(accounts, last'.to), last'.amount)
       /\ (last = Idle /\ last' # Idle /\ Failed) => UNCHANGED ledger]_vars

\* C13: total_supply changes only in a successful new and in a successful
\* finish_mint: every transfer, transfer_from, set_allowance, mint, every
\* failing call and every step of the prover or the host leaves it as it was.
\* (The view methods are functions of the state and take no step.)
C13_TotalSupplyFrame ==
    [][total_supply' # total_supply =>
        /\ Executes("new") \/ Executes("finish_mint")
        /\ Succeeded]_vars

\* A transfer has succeeded on a contract that has credited a mint.
C13_Witness ==
    /\ last.op \in {"transfer", "transfer_from"} /\ last.err = ""
    /\ \E i \in RequestIds : requests[i].status = "CREDITED"
    /\ total_supply > 0

\* C14: mint changes no balance, no allowance, not total_supply and nothing
\* else of the contract state, for every recipient, amount and proof; on the
\* initialized contract it succeeds and only registers one promise chain: the
\* call to the prover with skip_bridge_call = ~verify_ethash, then finish_mint
\* with the same recipient and amount.  Before initialization it fails and
\* registers nothing.
C14_MintFrame ==
    [][Executes("mint") =>
        /\ UNCHANGED ledger
        /\ IF state_exists
           THEN /\ Succeeded
                /\ last'.req \in RequestIds
                /\ requests[last'.req].status = "NONE"
                /\ requests'[last'.req].status = "REQUESTED"
                /\ requests'[last'.req].new_owner_id = last'.to
                /\ requests'[last'.req].amount = last'.amount
                /\ requests'[last'.req].proof \in Proofs
                /\ requests'[last'.req].skip_bridge_call = ~verify_ethash
                /\ \A j \in RequestIds \ {last'.req} : requests'[j] = requests[j]
           ELSE Failed /\ requests' = requests]_vars

\* mint for an identifier that is not a valid account id was accepted on a
\* contract holding tokens, with verify_ethash off: the prover is told to skip.
C14_Witness ==
    /\ last.op = "mint" /\ last.err = "" /\ last.amount > 0 /\ last.to = BadId
    /\ ~verify_ethash /\ total_supply > 0
    /\ requests[last.req].status = "REQUESTED"
    /\ requests[last.req].skip_bridge_call

\* The allowances map of owner_id in accts holds an entry for escrow_account_id.
HasAllowanceEntry(accts, owner_id, escrow_account_id) ==
    MapHas(get_account(accts, owner_id).allowances, sha256(escrow_account_id))

\* C15: in every reachable state no allowances map holds an entry of value
\* 0; a successful set_allowance(escrow, 0) and a successful delegated
\* transfer_from of the caller's whole allowance leave no entry for the
\* escrow, and get_allowance then returns 0.
C15_NoZeroAllowance ==
    /\ [](\A h \in DOMAIN accounts : \A e \in DOMAIN accounts[h].allowances :
              accounts[h].allowances[e] > 0)
    /\ [][/\ (Executes("set_allowance") /\ Succeeded /\ last'.amount = 0) =>
               /\ ~HasAllowanceEntry(accounts', last'.caller, last'.to)
               /\ AllowanceIn(accounts', last'.caller, last'.to) = 0
          /\ (Executes("transfer_from") /\ Succeeded /\ last'.caller # last'.owner
                  /\ last'.amount = AllowanceIn(accounts, last'.owner, last'.caller)) =>
               /\ ~HasAllowanceEntry(accounts', last'.owner, last'.caller)
               /\ AllowanceIn(accounts', last'.owner, last'.caller) = 0]_vars

\* A delegated transfer has spent the caller's whole allowance: the entry
\* that allowed it is gone.
C15_Witness ==
    /\ last.op = "transfer_from" /\ last.err = "" /\ last.caller # last.owner
    /\ last.amount > 0
    /\ ~HasAllowanceEntry(accounts, last.owner, last.caller)

\* This step completes request i with the prover's success while request j,
\* for the same recipient, is outstanding.
CompletesBeside(i, j) ==
    /\ i # j
    /\ requests[i].status = "VERIFIED_OK"
    /\ requests[j].status = "REQUESTED"
    /\ requests[j].new_owner_id = requests[i].new_owner_id
    /\ last = Idle /\ last'.op = "finish_mint" /\ last'.req = i

\* After this step the completion of request j with the prover's success
\* succeeds and ends with the recipient's balance and total_supply both
\* raised, from their values before this step, by the two amounts together.
BothCredited(i, j) ==
    \E r \in AllIds, a \in Balances :
        /\ r = requests[i].new_owner_id
        /\ a = requests[j].amount
        /\ LET both == requests[i].amount + a
               then_j == finish_mint(current_account_id, TRUE, r, a)'
           IN  /\ Succeeded
               /\ then_j.err = ""
               /\ BalanceIn(then_j.accts, r) = BalanceIn(accounts, r) + both
               /\ then_j.supply = total_supply + both
               /\ \A id \in AllIds \ {r} :
                      BalanceIn(then_j.accts, id) = BalanceIn(accounts, id)

LifecycleStep(i, verified_ends) ==
    \/ requests'[i].status = requests[i].status
    \/ requests[i].status = "NONE" /\ requests'[i].status = "REQUESTED"
    \/ requests[i].status = "REQUESTED"
            /\ requests'[i].status \in {"VERIFIED_OK", "VERIFIED_FAIL"}
    \/ requests[i].status = "VERIFIED_OK" /\ requests'[i].status \in verified_ends
    \/ requests[i].status = "VERIFIED_FAIL" /\ requests'[i].status = "ABORTED"

\* Every issued request is completed in the end.
EveryRequestCompletes ==
    \A i \in RequestIds :
        (requests[i].status = "REQUESTED")
            ~> (requests[i].status \in {"CREDITED", "ABORTED"})

\* C17 as stated: a mint request goes REQUESTED -> VERIFIED_OK -> CREDITED or
\* REQUESTED -> VERIFIED_FAIL -> ABORTED and nowhere else, so that a request
\* whose verification failed is never credited and no request is cancelled;
\* and under the host's scheduling every issued request reaches CREDITED or
\* ABORTED.
C17_MintLifecycleAsStated ==
    /\ [][\A i \in RequestIds : LifecycleStep(i, {"CREDITED"})]_vars
    /\ EveryRequestCompletes

\* C17 amended: the same, except that a request whose verification succeeded
\* ends ABORTED instead of CREDITED when its finish_mint panics, which it does
\* only on an overflowing credit.
C17_MintLifecycle ==
    /\ [][\A i \in RequestIds :
            /\ LifecycleStep(i, {"CREDITED", "ABORTED"})
            /\ (requests[i].status = "VERIFIED_OK" /\ requests'[i].status = "ABORTED")
                  => /\ overflow_checks
                     /\ \/ add_overflows(BalanceIn(accounts, requests[i].new_owner_id),
                                          requests[i].amount)
                        \/ add_overflows(total_supply, requests[i].amount)]_vars
    /\ EveryRequestCompletes

\* A request the prover refused has been aborted on a contract holding tokens.
C17_Witness ==
    /\ last.op = "finish_mint" /\ last.err = "Failed to verify the proof"
    /\ last.req \in RequestIds /\ last.amount > 0
    /\ requests[last.req].status = "ABORTED"
    /\ total_supply > 0

\* Request j is outstanding with the recipient, the amount and the proof of
\* request i: the same proof was submitted twice.
SameProofTwice(i, j) ==
    /\ i # j
    /\ requests[i].status \in {"REQUESTED", "VERIFIED_OK"}
    /\ requests[j].status = "REQUESTED"
    /\ requests[j].new_owner_id = requests[i].new_owner_id
    /\ requests[j].amount = requests[i].amount
    /\ requests[j].proof = requests[i].proof

\* The mint that this step executes repeats an outstanding request: the same
\* recipient and amount, and the same proof (Proofs holds one proof, which
\* every mint carries).
RepeatsProof ==
    /\ Executes("mint") /\ state_exists
    /\ \E j \in RequestIds :
          /\ requests[j].status = "REQUESTED"
          /\ requests[j].new_owner_id = last'.to
          /\ requests[j].amount = last'.amount

\* C18 as stated: a mint that repeats the proof, recipient and amount of an
\* earlier mint is accepted like the first, and when the prover answers
\* success to both, both finish_mint callbacks succeed and the recipient's
\* balance and total_supply end raised by twice the amount.
C18_DoubleMintAsStated ==
    [][/\ RepeatsProof =>
            Succeeded /\ requests'[last'.req].status = "REQUESTED"
       /\ \A i \in RequestIds, j \in RequestIds :
            (SameProofTwice(i, j) /\ CompletesBeside(i, j)) => BothCredited(i, j)]_vars

\* C18 amended: the same, when the recipient's balance plus twice the amount
\* and total_supply plus twice the amount do not exceed the largest Balance.
C18_DoubleMint ==
    [][/\ RepeatsProof =>
            Succeeded /\ requests'[last'.req].status = "REQUESTED"
       /\ \A i \in RequestIds, j \in RequestIds :
            (/\ SameProofTwice(i, j) /\ CompletesBeside(i, j)
             /\ BalanceIn(accounts, requests[i].new_owner_id)
                    + 2 * requests[i].amount <= U128Max
             /\ total_supply + 2 * requests[i].amount <= U128Max)
            => BothCredited(i, j)]_vars

\* The double mint: both requests were credited, the second just now, and
\* the recipient holds twice the amount, which is all of total_supply.
C18_Witness ==
    /\ \A i \in RequestIds : requests[i].status = "CREDITED"
    /\ last.op = "finish_mint" /\ last.err = "" /\ last.amount > 0
    /\ BalanceIn(accounts, last.to) = 2 * last.amount
    /\ total_supply = 2 * last.amount

\* C19: every operation that credits an account (new, transfer,
\* transfer_from, mint with finish_mint) rejects a recipient that is not a
\* valid account id, so that in every reachable state no such identifier
\* holds a balance other than 0.
C19_ValidHolders ==
    \A id \in AllIds : ~is_valid_account_id(id) => BalanceIn(accounts, id) = 0

\* This step executes transfer_from on owner o's account, called by e, who
\* is not the owner.
DelegatedBy(o, e) ==
    /\ Executes("transfer_from")
    /\ last'.owner = o /\ last'.caller = e /\ e # o

\* C20: between two set_allowance calls of owner O for escrow E, the amount E
\* has moved out of O's account plus allowance(O, E) stays what O set: a
\* successful transfer_from by E on O's account moves at most the allowance
\* and lowers it by exactly the amount moved, nothing but that and O's own
\* successful set_allowance for E (which sets it to the given value) changes
\* allowance(O, E), and once it is 0 every transfer_from by E on O's account
\* fails and changes nothing.
C20_AllowanceBound ==
    [][/\ (Executes("transfer_from") /\ last'.caller # last'.owner) =>
            LET o == last'.owner
                e == last'.caller
            IN  /\ Succeeded =>
                    /\ last'.amount <= AllowanceIn(accounts, o, e)
                    /\ AllowanceIn(accounts', o, e) + last'.amount
                            = AllowanceIn(accounts, o, e)
                    /\ BalanceIn(accounts, o) >= last'.amount
                /\ AllowanceIn(accounts, o, e) = 0 => Failed /\ UNCHANGED ledger
       /\ accounts' # accounts =>
            \A o \in AllIds, e \in AllIds :
                AllowanceIn(accounts', o, e) # AllowanceIn(accounts, o, e) =>
                    \/ DelegatedBy(o, e) /\ Succeeded
                    \/ /\ Executes("set_allowance") /\ Succeeded
                       /\ last'.caller = o /\ last'.to = e
                       /\ AllowanceIn(accounts', o, e) = last'.amount]_vars

\* The escrow has moved part of its allowance: what it moved and what is
\* left of the allowance are both positive.
C20_Witness ==
    /\ last.op = "transfer_from" /\ last.err = "" /\ last.caller # last.owner
    /\ last.amount > 0
    /\ AllowanceIn(accounts, last.owner, last.caller) > 0

====
